---- MODULE Spec2Model ----
(***************************************************************************)
(* Vuegraf: time-window reconciliation (get_last_db_timestamp), the        *)
(* per-channel extraction of extract_data_points and its traversal of a    *)
(* device tree, the historical sub-window loop of main and the scheduler   *)
(* loop of main with its accounts, failures and cancellation.              *)
(*                                                                         *)
(* Times are instants, whole seconds since an epoch that starts at a UTC   *)
(* midnight (every datetime of the program is aware, with microsecond =    *)
(* 0).  A usage sample is an integer number of kWh units or None.          *)
(***************************************************************************)
EXTENDS Integers, Sequences, FiniteSets, TLC

VARIABLES
    pc,                         \* position of the modelled code
    chan_num,                   \* key of the channel in device.channels
    kwh_usage,                  \* chan.usage (None: no sample)
    point_type,                 \* parameter point_type of extract_data_points
    history_start_time,         \* parameter / local of main (None when absent)
    history_end_time,           \* parameter / local of main (None when absent)
    stop_time,                  \* stop time of the cycle
    detailed_start_time,        \* start of the pending detail interval
    detailed_interval_secs,     \* configuration value detailedIntervalSecs
    collect_details,            \* collect_details of the cycle
    detailed_seconds_enabled,   \* second detail enabled
    usage_data_points,          \* the accumulation buffer
    db_last_record_time,        \* answer of the sink to the last query (None: no record)
    minute_history_start_time,  \* window of the minute catch-up
    stop_time_min,
    minute_history_enabled,
    no_data_flag,
    sec_history_start_time,     \* window of the second fetch
    stop_time_sec,
    second_history_enabled,
    usage,                      \* samples of the last chart fetch
    usage_start_time,           \* start time the API reported for the last chart fetch
    fetches,                    \* chart fetches issued so far: <<scale, start, stop>>
    queries,                    \* last-timestamp queries sent to the sink so far
    account_time_zone,          \* offset of the account's time zone from UTC, seconds
    history_days,               \* requested history length
    history,                    \* a historical backfill is still to be done
    dryrun,                     \* args.dryrun
    stop_time_history,          \* the stop time as a datetime of the account's zone
    windows,                    \* sub-windows handed to the walker by the historical loop: <<start, end, account>>
    written,                    \* batches written to the sink
    running,                    \* config.running
    account,                    \* position of the account in cfg['accounts']
    logged_in,                  \* accounts that carry a 'vue' session
    cycle,                      \* cycles of the scheduler loop started so far
    now,                        \* the wall clock
    cur_day,                    \* cur_day of the cycle
    past_day,                   \* the previous-day marker
    history_run,                \* the cycle belongs to the historical run
    interval_secs,              \* configuration value updateIntervalSecs
    detailed_data_enabled,      \* configuration value detailedDataEnabled
    detailed_hours_enabled,     \* hour detail enabled
    failures,                   \* calls that have raised or answered None so far
    collected,                  \* hour and day collections made so far: <<scale, account, time>>
    abandoned,                  \* accounts whose iteration raised in the current cycle
    nodry_points,               \* the buffer of the same run without dry-run
    nodry_written,              \* the batches the same run writes without dry-run
    tree,                       \* the device tree handed to extract_data_points
    stack,                      \* the frames of the recursion of extract_data_points
    visited,                    \* channels processed so far, in order
    usages                      \* the device-list fetch whose answer main's usages holds

vars == <<pc, chan_num, kwh_usage, point_type, history_start_time, history_end_time,
          stop_time, detailed_start_time, detailed_interval_secs, collect_details,
          detailed_seconds_enabled, usage_data_points, db_last_record_time,
          minute_history_start_time, stop_time_min, minute_history_enabled, no_data_flag,
          sec_history_start_time, stop_time_sec, second_history_enabled,
          usage, usage_start_time, fetches, queries,
          account_time_zone, history_days, history, dryrun, stop_time_history, windows,
          written, running,
          account, logged_in, cycle, now, cur_day, past_day, history_run, interval_secs,
          detailed_data_enabled, detailed_hours_enabled, failures, collected, abandoned,
          nodry_points, nodry_written, tree, stack, visited, usages>>

\* The arguments of one call of extract_data_points.
callArgs == <<chan_num, kwh_usage, point_type, history_start_time, history_end_time,
              stop_time, detailed_start_time, detailed_interval_secs, collect_details,
              detailed_seconds_enabled>>
\* The state of main that extract_data_points does not touch.
mainVars == <<account_time_zone, history_days, history, dryrun, stop_time_history, windows,
              written, running>>
\* The state of the scheduler loop that neither extract_data_points nor the historical
\* loop touches.
schedVars == <<account, logged_in, cycle, cur_day, past_day, history_run, interval_secs,
               detailed_data_enabled, detailed_hours_enabled, collected, abandoned, usages>>
\* The run without dry-run that is fed the same answers.
twinVars == <<nodry_points, nodry_written>>
\* The traversal of a device tree.
treeVars == <<tree, stack, visited>>


None == -1
\* usages when the device-list fetch answered None.
NoUsages == "None"

Min(a, b) == IF a <= b THEN a ELSE b

\* ---------------------------------------------------------------- bounds
MaxStopSec == 1
Slack == 1
MaxUsageLen == 2
MaxSkew == 1
MaxHistDays == 43

\* ------------------------------------------------------ program constants
SevenDays == 604800
TwelveHours == 43200
OneHour == 3600
ThreeHours == 10800
seconds_in_a_minute == 60
minutes_in_an_hour == 60
watts_in_a_kw == 1000
SecondsInADay == 24 * 3600

tag_value_minute == "False"
tag_value_second == "True"
tag_value_hour == "Hour"
tag_value_day == "Day"
excluded_detail_channel_numbers == {"Balance", "TotalUsage"}

\* datetime.replace(second=0, microsecond=0)
FloorMinute(t) == t - (t % 60)
\* datetime.replace(minute=0, second=0, microsecond=0)
FloorHour(t) == t - (t % 3600)

\* The MINUTE backfill trigger: the last record is older than the stop time less
\* two minutes and the stop time's seconds.
MinuteBackfillTriggerNoFloor(last, stop) == last < stop - 2 * 60
MinuteBackfillTriggerAnyGap(last, stop) == last < stop - (stop % 60)
MinuteBackfillTrigger(last, stop) == last < stop - (2 * 60 + (stop % 60))

\* get_last_db_timestamp, given the answer `last` of the sink (None: empty answer).
get_last_db_timestamp(pt, last, start, stop, flag, interval) ==
    IF last # None
    THEN IF pt = tag_value_minute
         THEN IF MinuteBackfillTrigger(last, stop)
              THEN LET s1 == last + 60
                       s2 == IF stop - s1 > SevenDays THEN stop - 10080 * 60 ELSE s1
                       e2 == IF stop - s2 > TwelveHours THEN s2 + 720 * 60 ELSE stop
                   IN  <<s2, e2, TRUE>>
              ELSE <<start, stop, flag>>
         ELSE IF pt = tag_value_second
         THEN IF last < start - 2
              THEN LET s1 == last + 1
                   IN  IF stop - s1 > OneHour
                       THEN IF interval >= 3600
                            THEN <<stop - 3600, stop, TRUE>>
                            ELSE LET s2 == IF stop - s1 > ThreeHours THEN stop - 10800 ELSE s1
                                     e2 == IF stop - s2 > OneHour THEN s2 + 3600 ELSE stop
                                 IN  <<s2, e2, TRUE>>
                       ELSE <<s1, stop, TRUE>>
              ELSE <<start, stop, flag>>
         ELSE <<start, stop, flag>>
    ELSE IF pt = tag_value_minute
         THEN <<start - 7 * SecondsInADay, (start - 7 * SecondsInADay) + 12 * 3600, TRUE>>
         ELSE IF pt = tag_value_second
         THEN <<start - 3 * 3600, (start - 3 * 3600) + 3600, TRUE>>
         ELSE <<start, stop, flag>>

\* collect_details of a cycle (main).
CollectDetailsAnyInterval(enabled, interval, stop, dst) ==
    enabled /\ (stop - dst) >= interval
CollectDetails(enabled, interval, stop, dst) ==
    enabled /\ interval > 0 /\ (stop - dst) >= interval

\* datetime.astimezone(account_time_zone).replace(hour=23, minute=59, second=59,
\* microsecond=0), as an instant; tz is the zone's offset from UTC in seconds.
LocalDayEnd(t, tz) == ((t + tz) - ((t + tz) % SecondsInADay)) + (SecondsInADay - 1) - tz
\* datetime.replace(hour=0, minute=0, second=0, microsecond=0) of a local datetime.
LocalMidnight(t, tz) == ((t + tz) - ((t + tz) % SecondsInADay)) - tz

\* account_name = account['name']: an account is named by its position.
account_name == account

\* create_data_point: the content of a point (both encodings carry the same content).
create_data_point(account_name_, chan_name, watts, timestamp, detailed) ==
    [account_name |-> account_name_, device_name |-> chan_name, usage |-> watts,
     time |-> timestamp, detailed |-> detailed]

\* The step of the sample index on a None sample.
IndexAfterNoneBad(index) == index
IndexAfterNone(index) == index + 1

\* The loop "for kwh_usage in usage" with its index, over the positions lo..hi and
\* entered with index; the positions are walked in order, half by half, the index
\* the first half leaves with (i) being the one the second half is entered with.
\* The index the loop leaves with.
RECURSIVE IndexAfter(_, _, _, _)
IndexAfter(u, lo, hi, index) ==
    IF lo > hi THEN index
    ELSE IF lo = hi
         THEN IF u[lo] = None THEN IndexAfterNone(index) ELSE index + 1
         ELSE CHOOSE last \in UNION {{IndexAfter(u, mid + 1, hi, i) :
                                         i \in {IndexAfter(u, lo, mid, index)}} :
                                     mid \in {(lo + hi) \div 2}} : TRUE
\* The non-null samples with the index each one is seen at.
RECURSIVE SamplesLoop(_, _, _, _)
SamplesLoop(u, lo, hi, index) ==
    IF lo > hi THEN <<>>
    ELSE IF lo = hi
         THEN IF u[lo] = None THEN <<>> ELSE <<[index |-> index, kwh |-> u[lo]]>>
         ELSE CHOOSE all \in UNION {{SamplesLoop(u, lo, mid, index)
                                            \o SamplesLoop(u, mid + 1, hi, i) :
                                        i \in {IndexAfter(u, lo, mid, index)}} :
                                    mid \in {(lo + hi) \div 2}} : TRUE

\* The non-null samples of the loop from position pos on.
NonNullSamples(u, pos, index) == SamplesLoop(u, pos, Len(u), index)

\* Points of a minute-scale chart fetch.
MinutePoints(chan, u, start) ==
    CHOOSE points \in
        {[k \in 1..Len(s) |->
             create_data_point(account_name, chan, (minutes_in_an_hour * watts_in_a_kw) * s[k].kwh,
                               FloorMinute(start) + 60 * s[k].index, tag_value_minute)] :
            s \in {NonNullSamples(u, 1, 0)}} : TRUE

\* Points of the second-scale chart fetch.
SecondPoints(chan, u, start) ==
    LET s == NonNullSamples(u, 1, 0)
    IN  [k \in 1..Len(s) |->
            create_data_point(account_name, chan,
                              (seconds_in_a_minute * minutes_in_an_hour * watts_in_a_kw) * s[k].kwh,
                              start + s[k].index, tag_value_second)]

\* Points of the historical hour-scale chart fetch.
HourPoints(chan, u, start) ==
    LET s == NonNullSamples(u, 1, 0)
        base == FloorHour(start)
    IN  [k \in 1..Len(s) |->
            create_data_point(account_name, chan, s[k].kwh * 1000, base + 3600 * s[k].index, tag_value_hour)]

\* Points of the historical day-scale chart fetch; start is the start time the API
\* reported for the day fetch.
DayPoints(chan, u, start, tz) ==
    LET s == NonNullSamples(u, 1, 0)
    IN  [k \in 1..Len(s) |->
            create_data_point(account_name, chan, s[k].kwh * 1000,
                              LocalDayEnd(start + SecondsInADay * s[k].index, tz),
                              tag_value_day)]

\* ------------------------------------------------------------ input sets
\* The scheduler before its first cycle, with one account.
SchedIdle ==
    /\ account = 1
    /\ logged_in = {}
    /\ cycle = 0
    /\ now = 0
    /\ cur_day = None
    /\ past_day = None
    /\ history_run = FALSE
    /\ interval_secs = 60
    /\ detailed_data_enabled = FALSE
    /\ detailed_hours_enabled = FALSE
    /\ failures = 0
    /\ collected = <<>>
    /\ abandoned = {}
    /\ nodry_written = <<>>

\* No traversal in progress.
TreeIdle ==
    /\ tree = <<>>
    /\ stack = <<>>
    /\ visited = <<>>

PtNone == "None"
PtHistory == "History"
Channels == {"1", "Balance", "TotalUsage"}
KwhValues == {0, 2}
Samples == {None} \cup KwhValues
UsageSeqs == UNION {[1..n -> Samples] : n \in 0..MaxUsageLen}
\* What get_chart_usage answers: the samples and the offset of the start time it
\* reports from the start time asked for.
Skews == {45 * k : k \in 0..MaxSkew}
Responses == UsageSeqs \X Skews

StopBase == 30 * SecondsInADay + 12 * 3600 + 17 * 60
StopTimes == {StopBase + 37 * k : k \in 0..MaxStopSec}
TzOffsets == {0 - 5 * 3600, 3600}
Intervals == {1800, 3600, 7200}

AllNone(u) == \A i \in 1..Len(u) : u[i] = None

\* ------------------------------------------- extract_data_points, one channel
\* lookup_device_name and lookup_channel_name are looked up on the device argument
\* (the parameter named device hides the module of that name); the model takes them
\* to answer with the names, and names a channel by its number.
Excluded == chan_num \in excluded_detail_channel_numbers

\* "if not minute_history_enabled or chan_num in excluded_detail_channel_numbers":
\* the simple live minute point is emitted.
SimpleMinutePointNoExclusion(enabled, chan) == ~enabled
SimpleMinutePoint(enabled, chan) ==
    ~enabled \/ chan \in excluded_detail_channel_numbers

\* The sink answers the MINUTE query: window resolution, then either the simple
\* live point or the entry of the catch-up loop.
ResolveMinute(answers) ==
    /\ pc = "entry"
    /\ kwh_usage # None
    /\ point_type = PtNone
    /\ \E last \in answers :
         LET r == get_last_db_timestamp(tag_value_minute, last, stop_time, stop_time, FALSE,
                                        detailed_interval_secs)
         IN  /\ db_last_record_time' = last
             /\ queries' = Append(queries, tag_value_minute)
             /\ minute_history_start_time' = r[1]
             /\ stop_time_min' = r[2]
             /\ minute_history_enabled' = r[3]
             /\ IF SimpleMinutePoint(r[3], chan_num)
                THEN /\ usage_data_points' = Append(usage_data_points,
                            create_data_point(account_name, chan_num,
                                (minutes_in_an_hour * watts_in_a_kw) * kwh_usage,
                                FloorMinute(stop_time), tag_value_minute))
                     /\ pc' = "detail"
                     /\ UNCHANGED no_data_flag
                ELSE IF ~Excluded /\ history_start_time = None
                THEN /\ no_data_flag' = TRUE
                     /\ pc' = "catchup"
                     /\ UNCHANGED usage_data_points
                ELSE /\ pc' = "detail"
                     /\ UNCHANGED <<usage_data_points, no_data_flag>>
    /\ UNCHANGED <<callArgs, sec_history_start_time, stop_time_sec,
                   second_history_enabled, usage, usage_start_time, fetches,
                   mainVars, schedVars, now, failures, twinVars, treeVars>>

\* The hourly and the day-rollover invocation: one point from the channel's usage.
HourDayPoint ==
    /\ pc = "entry"
    /\ kwh_usage # None
    /\ point_type # PtNone
    /\ point_type = tag_value_day \/ point_type = tag_value_hour
    /\ usage_data_points' = Append(usage_data_points,
            create_data_point(account_name, chan_num, kwh_usage * 1000, history_start_time, point_type))
    /\ pc' = "detail"
    /\ UNCHANGED <<callArgs, db_last_record_time, minute_history_start_time,
                   stop_time_min, minute_history_enabled, no_data_flag,
                   sec_history_start_time, stop_time_sec, second_history_enabled,
                   usage, usage_start_time, fetches, queries,
                   mainVars, schedVars, now, failures, twinVars, treeVars>>

\* No usage value, or a point type that is neither live nor hour nor day.
NoUsagePoint ==
    /\ pc = "entry"
    /\ \/ kwh_usage = None
       \/ /\ point_type # PtNone
          /\ point_type # tag_value_day
          /\ point_type # tag_value_hour
    /\ pc' = "detail"
    /\ UNCHANGED <<callArgs, usage_data_points, db_last_record_time,
                   minute_history_start_time, stop_time_min, minute_history_enabled,
                   no_data_flag, sec_history_start_time, stop_time_sec,
                   second_history_enabled, usage, usage_start_time, fetches, queries,
                   mainVars, schedVars, now, failures, twinVars, treeVars>>

\* The advance of the catch-up window after a fetch without any sample:
\* <<start, stop, no_data_flag>>.
AdvanceWindowBad(start, stop, global_stop) == <<start, stop, TRUE>>
AdvanceWindowStartToCap(start, stop, global_stop) ==
    IF stop < FloorMinute(global_stop)
    THEN <<FloorMinute(global_stop), Min(stop + (stop - start), FloorMinute(global_stop)), TRUE>>
    ELSE <<start, stop, FALSE>>
AdvanceWindow(start, stop, global_stop) ==
    IF stop < FloorMinute(global_stop)
    THEN LET foo_current_interval == stop - start
         IN  <<Min(start + foo_current_interval, FloorMinute(global_stop)),
               Min(stop + foo_current_interval, FloorMinute(global_stop)),
               TRUE>>
    ELSE <<start, stop, FALSE>>

\* One pass of the catch-up loop: the minute fetch for the current window and the
\* handling of its answer, one of responses.
CatchUpFetchOf(responses) ==
    /\ pc = "catchup"
    /\ \E resp \in responses :
         LET u == resp[1]
             reported == minute_history_start_time + resp[2]
             adv == AdvanceWindow(minute_history_start_time, stop_time_min, stop_time)
         IN  /\ fetches' = Append(fetches,
                    <<"MINUTE", minute_history_start_time, stop_time_min>>)
             /\ usage' = u
             /\ usage_start_time' = FloorMinute(reported)
             /\ usage_data_points' = usage_data_points \o MinutePoints(chan_num, u, reported)
             /\ IF AllNone(u)
                THEN /\ minute_history_start_time' = adv[1]
                     /\ stop_time_min' = adv[2]
                     /\ no_data_flag' = adv[3]
                     /\ pc' = IF adv[3] THEN "catchup" ELSE "detail"
                ELSE /\ no_data_flag' = FALSE
                     /\ pc' = "detail"
                     /\ UNCHANGED <<minute_history_start_time, stop_time_min>>
    /\ minute_history_enabled' = FALSE
    /\ UNCHANGED <<callArgs, db_last_record_time,
                   sec_history_start_time, stop_time_sec, second_history_enabled,
                   queries, mainVars, schedVars, now, failures, twinVars, treeVars>>

\* The pass with the API answering anything.
CatchUpFetch == CatchUpFetchOf(Responses)

\* "if chan_num in excluded_detail_channel_numbers: continue"
ExcludedContinue ==
    /\ pc = "detail"
    /\ Excluded
    /\ pc' = "done"
    /\ UNCHANGED <<callArgs, usage_data_points, db_last_record_time,
                   minute_history_start_time, stop_time_min, minute_history_enabled,
                   no_data_flag, sec_history_start_time, stop_time_sec,
                   second_history_enabled, usage, usage_start_time, fetches, queries,
                   mainVars, schedVars, now, failures, twinVars, treeVars>>

SecondsDueInHistory == collect_details /\ detailed_seconds_enabled
SecondsDue == collect_details /\ detailed_seconds_enabled /\ history_start_time = None

\* The sink answers the SECOND query: the window of the second fetch.
ResolveSecond(answers) ==
    /\ pc = "detail"
    /\ ~Excluded
    /\ SecondsDue
    /\ \E last \in answers :
         LET r == get_last_db_timestamp(tag_value_second, last, detailed_start_time, stop_time,
                                        detailed_seconds_enabled, detailed_interval_secs)
         IN  /\ db_last_record_time' = last
             /\ queries' = Append(queries, tag_value_second)
             /\ sec_history_start_time' = r[1]
             /\ stop_time_sec' = r[2]
             /\ second_history_enabled' = r[3]
    /\ pc' = "sec_fetch"
    /\ UNCHANGED <<callArgs, usage_data_points,
                   minute_history_start_time, stop_time_min, minute_history_enabled,
                   no_data_flag, usage, usage_start_time, fetches,
                   mainVars, schedVars, now, failures, twinVars, treeVars>>

\* The single second-scale fetch and its points.
SecondFetchRetry ==
    /\ pc = "sec_fetch"
    /\ \E resp \in Responses :
         LET u == resp[1]
             reported == sec_history_start_time + resp[2]
         IN  /\ fetches' = Append(fetches, <<"SECOND", sec_history_start_time, stop_time_sec>>)
             /\ usage' = u
             /\ usage_start_time' = reported
             /\ usage_data_points' = usage_data_points \o SecondPoints(chan_num, u, reported)
             /\ pc' = IF AllNone(u) THEN "sec_fetch" ELSE "history"
    /\ UNCHANGED <<callArgs, db_last_record_time,
                   minute_history_start_time, stop_time_min, minute_history_enabled,
                   no_data_flag, sec_history_start_time, stop_time_sec,
                   second_history_enabled, queries,
                   mainVars, schedVars, now, failures, twinVars, treeVars>>
SecondFetch ==
    /\ pc = "sec_fetch"
    /\ \E resp \in Responses :
         LET u == resp[1]
             reported == sec_history_start_time + resp[2]
         IN  /\ fetches' = Append(fetches, <<"SECOND", sec_history_start_time, stop_time_sec>>)
             /\ usage' = u
             /\ usage_start_time' = reported
             /\ usage_data_points' = usage_data_points \o SecondPoints(chan_num, u, reported)
    /\ pc' = "history"
    /\ UNCHANGED <<callArgs, db_last_record_time,
                   minute_history_start_time, stop_time_min, minute_history_enabled,
                   no_data_flag, sec_history_start_time, stop_time_sec,
                   second_history_enabled, queries,
                   mainVars, schedVars, now, failures, twinVars, treeVars>>

\* Seconds are not collected for this channel in this invocation.
SkipSeconds ==
    /\ pc = "detail"
    /\ ~Excluded
    /\ ~SecondsDue
    /\ pc' = "history"
    /\ UNCHANGED <<callArgs, usage_data_points, db_last_record_time,
                   minute_history_start_time, stop_time_min, minute_history_enabled,
                   no_data_flag, sec_history_start_time, stop_time_sec,
                   second_history_enabled, usage, usage_start_time, fetches, queries,
                   mainVars, schedVars, now, failures, twinVars, treeVars>>

HistoryDue == history_start_time # None /\ history_end_time # None

\* The hour-scale fetch of a historical invocation and its points.
HourFetch ==
    /\ pc = "history"
    /\ HistoryDue
    /\ \E resp \in Responses :
         LET u == resp[1]
             reported == history_start_time + resp[2]
         IN  /\ fetches' = Append(fetches, <<"HOUR", history_start_time, history_end_time>>)
             /\ usage' = u
             /\ usage_start_time' = FloorHour(reported)
             /\ usage_data_points' = usage_data_points \o HourPoints(chan_num, u, reported)
    /\ pc' = "day_fetch"
    /\ UNCHANGED <<callArgs, db_last_record_time,
                   minute_history_start_time, stop_time_min, minute_history_enabled,
                   no_data_flag, sec_history_start_time, stop_time_sec,
                   second_history_enabled, queries,
                   mainVars, schedVars, now, failures, twinVars, treeVars>>

\* The day-scale fetch of a historical invocation and its points.
DayFetch ==
    /\ pc = "day_fetch"
    /\ \E resp \in Responses :
         LET u == resp[1]
             reported == history_start_time + resp[2]
         IN  /\ fetches' = Append(fetches, <<"DAY", history_start_time, history_end_time>>)
             /\ usage' = u
             /\ usage_start_time' = reported
             /\ usage_data_points' = usage_data_points \o DayPoints(chan_num, u, reported, account_time_zone)
    /\ pc' = "done"
    /\ UNCHANGED <<callArgs, db_last_record_time,
                   minute_history_start_time, stop_time_min, minute_history_enabled,
                   no_data_flag, sec_history_start_time, stop_time_sec,
                   second_history_enabled, queries,
                   mainVars, schedVars, now, failures, twinVars, treeVars>>

\* Not a historical invocation: the channel is finished.
NoHistory ==
    /\ pc = "history"
    /\ ~HistoryDue
    /\ pc' = "done"
    /\ UNCHANGED <<callArgs, usage_data_points, db_last_record_time,
                   minute_history_start_time, stop_time_min, minute_history_enabled,
                   no_data_flag, sec_history_start_time, stop_time_sec,
                   second_history_enabled, usage, usage_start_time, fetches, queries,
                   mainVars, schedVars, now, failures, twinVars, treeVars>>

\* ------------------------------------------------------------------ inputs
\* The detail settings of a cycle: the interval, the start of the pending detail
\* interval and the two switches, with collect_details as main computes it.
DetailCfgs(stop, intervals, lags) ==
    UNION {{[interval |-> i, dst |-> stop - i - d,
             cd |-> CollectDetails(en, i, stop, stop - i - d), secs |-> en /\ se] :
                en \in BOOLEAN, se \in BOOLEAN} : i \in intervals, d \in lags}

\* The invocations main makes: <<point_type, history_start_time, history_end_time>>.
LiveCall == <<PtNone, None, None>>
HourCall(stop) == <<tag_value_hour, FloorHour(stop - 3600), None>>
DayCall(stop, tz) == <<tag_value_day, LocalDayEnd(stop - SecondsInADay, tz), None>>
HistoryCall(stop, tz, days) ==
    <<PtHistory, LocalMidnight(stop - days * SecondsInADay, tz), LocalDayEnd(stop, tz)>>

Calls(kinds, stop, tz, cd) ==
    (IF "live" \in kinds THEN {LiveCall} ELSE {})
        \cup (IF "day" \in kinds THEN {DayCall(stop, tz)} ELSE {})
        \cup (IF "history" \in kinds THEN {HistoryCall(stop, tz, 1)} ELSE {})
        \cup (IF "hour" \in kinds /\ cd THEN {HourCall(stop)} ELSE {})

\* Answers of the sink to the MINUTE query: no record, a fresh record, and records
\* 3 minutes, 13 hours and 8 days old.
WalkMinuteAnswers(stop) ==
    {None, stop - 30, stop - 180, stop - 13 * 3600, stop - 8 * SecondsInADay}
\* Answers of the sink to the SECOND query.
WalkSecondAnswers(dst, stop) == {None, dst - 1, dst - 10, stop - 5 * 3600}

InitCall(kinds, chans, kwhs, intervals, lags, zones) ==
    /\ pc = "entry"
    /\ chan_num \in chans
    /\ kwh_usage \in kwhs
    /\ stop_time \in StopTimes
    /\ account_time_zone \in zones
    /\ \E c \in DetailCfgs(stop_time, intervals, lags) :
         /\ detailed_interval_secs = c.interval
         /\ detailed_start_time = c.dst
         /\ collect_details = c.cd
         /\ detailed_seconds_enabled = c.secs
    /\ \E call \in Calls(kinds, stop_time, account_time_zone, collect_details) :
         /\ point_type = call[1]
         /\ history_start_time = call[2]
         /\ history_end_time = call[3]
    /\ usage_data_points = <<>>
    /\ nodry_points = <<>>
    /\ db_last_record_time = None
    /\ minute_history_start_time = None
    /\ stop_time_min = None
    /\ minute_history_enabled = FALSE
    /\ no_data_flag = FALSE
    /\ sec_history_start_time = None
    /\ stop_time_sec = None
    /\ second_history_enabled = FALSE
    /\ usage = <<>>
    /\ usage_start_time = None
    /\ fetches = <<>>
    /\ queries = <<>>
    /\ history_days = 0
    /\ history = FALSE
    /\ dryrun = FALSE
    /\ stop_time_history = None
    /\ windows = <<>>
    /\ written = <<>>
    /\ running = TRUE
    /\ SchedIdle
    /\ TreeIdle
    /\ usages = NoUsages

\* One call of extract_data_points on one channel.
Init == InitCall({"live", "hour", "day", "history"}, Channels, Samples, {3600}, {59, 0 - 1}, {0 - 5 * 3600})

Next ==
    \/ ResolveMinute(WalkMinuteAnswers(stop_time))
    \/ HourDayPoint
    \/ NoUsagePoint
    \/ CatchUpFetch
    \/ ExcludedContinue
    \/ ResolveSecond(WalkSecondAnswers(detailed_start_time, stop_time))
    \/ SecondFetch
    \/ SkipSeconds
    \/ HourFetch
    \/ DayFetch
    \/ NoHistory

Spec == Init /\ [][Next]_vars

\* ----------------------------------------------- the window resolver alone
\* The two calls of get_last_db_timestamp made for a channel in a live invocation,
\* with sink answers around every threshold of the resolver.
ResolverMinuteAnswers(stop) ==
    {None} \cup {b - (c + d) : b \in {stop, FloorMinute(stop)},
                               c \in {0, 120, 180, 12 * 3600 + 60, 7 * SecondsInADay + 60},
                               d \in (0 - Slack)..Slack}
ResolverSecondAnswers(dst, stop) ==
    {None} \cup {b - d : b \in {dst - 2, stop - 3601, stop - 10801}, d \in (0 - Slack)..Slack}

InitResolver == InitCall({"live"}, {"1"}, {None, 2}, Intervals, {59, 0, 0 - 1}, {0})

NextResolver ==
    \/ ResolveMinute(ResolverMinuteAnswers(stop_time))
    \/ NoUsagePoint
    \/ ResolveSecond(ResolverSecondAnswers(detailed_start_time, stop_time))

SpecResolver == InitResolver /\ [][NextResolver]_vars

\* The last thing that happened is the answer to the MINUTE query.
MinuteResolved ==
    /\ queries # <<>>
    /\ queries[Len(queries)] = tag_value_minute
    /\ fetches = <<>>
\* The last thing that happened is the answer to the SECOND query.
SecondResolved == pc = "sec_fetch"

\* C1: the window returned by get_last_db_timestamp spans at most 12 hours for the
\* MINUTE tag and at most 1 hour for the SECOND tag, in every call, the calls that
\* do not trigger backfill included.
C1_SpanWithinMaxFetch ==
    /\ MinuteResolved => stop_time_min - minute_history_start_time <= 12 * 3600
    /\ SecondResolved => stop_time_sec - sec_history_start_time <= 3600

\* C2: the start returned by get_last_db_timestamp is never earlier than the proposed
\* stop less the max lookback: 7 days for MINUTE; for SECOND 3 hours, or 1 hour when
\* detailedIntervalSecs >= 3600.
C2_StartWithinLookback ==
    /\ MinuteResolved => minute_history_start_time >= stop_time - 7 * 24 * 3600
    /\ SecondResolved =>
          sec_history_start_time >=
              stop_time - (IF detailed_interval_secs >= 3600 THEN 3600 ELSE 3 * 3600)

\* C3: with a last stored MINUTE timestamp T, backfill is flagged iff
\* T < (stop floored to the minute) - 2 minutes; when flagged the start is T + 1 minute
\* unless that is more than 7 days before stop; and for T = stop - 3 minutes the answer
\* is flagged, starts at T + 1 minute and spans at most 12 hours.
C3_MinuteBackfill ==
    (MinuteResolved /\ db_last_record_time # None) =>
        LET T == db_last_record_time IN
        /\ minute_history_enabled <=> (T < FloorMinute(stop_time) - 2 * 60)
        /\ (minute_history_enabled /\ stop_time - (T + 60) <= 7 * 24 * 3600)
              => minute_history_start_time = T + 60
        /\ (T = stop_time - 3 * 60) =>
              /\ minute_history_enabled
              /\ minute_history_start_time = T + 60
              /\ stop_time_min - minute_history_start_time <= 12 * 3600

C3_Witness ==
    /\ MinuteResolved
    /\ db_last_record_time = stop_time - 3 * 60
    /\ stop_time % 60 # 0
    /\ minute_history_enabled
    /\ minute_history_start_time = db_last_record_time + 60
    /\ pc = "catchup"

\* C4: with no prior SECOND record and a detail interval of 7200 s, the returned
\* window spans exactly 1 hour and ends at the proposed stop time.
C4_NoRecordSecondWindow ==
    (SecondResolved /\ db_last_record_time = None /\ detailed_interval_secs = 7200) =>
        /\ stop_time_sec - sec_history_start_time = 3600
        /\ stop_time_sec = stop_time

\* ------------------------------------------------- the catch-up loop alone
\* A live invocation on a metered channel with a usage value, the sink answering
\* around every threshold of the resolver, the API answering anything.
InitCatchUp == InitCall({"live"}, {"1"}, KwhValues, {3600}, {0 - 1}, {0})

NextCatchUp ==
    \/ ResolveMinute(ResolverMinuteAnswers(stop_time))
    \/ CatchUpFetch

\* Every fetch of the loop returns, so the loop keeps taking its next pass.
SpecCatchUp == InitCatchUp /\ [][NextCatchUp]_vars /\ WF_vars(CatchUpFetch)

\* ------------------------------------------------------------ C5 .. C8
\* The positions of the non-null samples of a fetched sequence.
NonNullAt(u) == {k \in 1..Len(u) : u[k] # None}
\* The stamp of the sample at position k (counted from 1) of a fetch at a scale.
StampOf(scale, base, k) ==
    IF scale = "MINUTE" THEN base + 60 * (k - 1)
    ELSE IF scale = "SECOND" THEN base + (k - 1)
    ELSE IF scale = "HOUR" THEN base + 3600 * (k - 1)
    ELSE LocalDayEnd(base + 24 * 3600 * (k - 1), account_time_zone)
TagOf(scale) ==
    IF scale = "MINUTE" THEN tag_value_minute
    ELSE IF scale = "SECOND" THEN tag_value_second
    ELSE IF scale = "HOUR" THEN tag_value_hour
    ELSE tag_value_day

\* C5: in every extraction a None sample appends no point and the index still
\* advances: a chart fetch appends exactly one point per non-null sample, in order,
\* the sample at index k stamped base + k units (the local day end of base + k days
\* at day scale), and a channel without usage value appends no live point.
C5_NoneNeverEmits ==
    [][ /\ (fetches' # fetches) =>
             LET u == usage'
                 scale == fetches'[Len(fetches')][1]
                 old == Len(usage_data_points)
             IN  /\ Len(usage_data_points') = old + Cardinality(NonNullAt(u))
                 /\ SubSeq(usage_data_points', 1, old) = usage_data_points
                 /\ \A k \in NonNullAt(u) :
                       LET pt == usage_data_points'[old + Cardinality({j \in NonNullAt(u) : j <= k})]
                       IN  /\ pt.time = StampOf(scale, usage_start_time', k)
                           /\ pt.detailed = TagOf(scale)
        /\ (pc = "entry" /\ kwh_usage = None) => usage_data_points' = usage_data_points
      ]_vars

C5_Witness ==
    /\ fetches # <<>>
    /\ fetches[Len(fetches)][1] = "MINUTE"
    /\ Len(usage) = 2
    /\ usage[1] = None
    /\ usage[2] = 2
    /\ usage_data_points # <<>>
    /\ usage_data_points[Len(usage_data_points)].time = usage_start_time + 60

\* C6: a channel numbered 'Balance' or 'TotalUsage' never has a second-, hour- or
\* day-tagged point appended to the buffer, only minute-tagged points.
C6_AggregateOnlyMinute ==
    Excluded =>
        \A i \in 1..Len(usage_data_points) : usage_data_points[i].detailed = tag_value_minute

\* C7: in a live invocation an aggregate pseudo-channel with a usage value produces
\* exactly one minute point, watts = usage * 60 * 1000, stamped at the stop time
\* floored to the minute, and issues no chart fetch, whatever the sink answers.
C7_AggregateLivePoint ==
    (Excluded /\ point_type = PtNone /\ kwh_usage # None) =>
        /\ fetches = <<>>
        /\ pc # "catchup"
        /\ pc = "entry" => usage_data_points = <<>>
        /\ pc # "entry" =>
              usage_data_points =
                  <<[account_name |-> account, device_name |-> chan_num,
                     usage |-> kwh_usage * 60 * 1000,
                     time |-> stop_time - (stop_time % 60), detailed |-> "False"]>>

C7_Witness ==
    /\ Excluded
    /\ point_type = PtNone
    /\ kwh_usage = 2
    /\ pc = "done"
    /\ queries = <<tag_value_minute>>
    /\ db_last_record_time = None
    /\ Len(usage_data_points) = 1
    /\ usage_data_points[1].usage = 120000

\* C8: the catch-up loop terminates: a fetch with a non-null sample ends it, an
\* all-None fetch ends it once the window stop has reached the stop time floored to
\* the minute, every other pass moves the window stop forward without passing that
\* limit, and the loop is always left.
C8_CatchUpTerminates ==
    /\ [][ (pc = "catchup" /\ fetches' # fetches) =>
             /\ ~AllNone(usage') => pc' = "detail"
             /\ (AllNone(usage') /\ stop_time_min >= FloorMinute(stop_time)) => pc' = "detail"
             /\ pc' = "catchup" =>
                   /\ stop_time_min' > stop_time_min
                   /\ stop_time_min' <= FloorMinute(stop_time)
                   /\ minute_history_start_time' < stop_time_min'
          ]_vars
    /\ (pc = "catchup") ~> (pc = "detail")

C8_Witness ==
    /\ pc = "detail"
    /\ Len(fetches) = 14
    /\ usage_data_points = <<>>
    /\ db_last_record_time = None
    /\ stop_time % 60 # 0
    /\ stop_time_min = FloorMinute(stop_time)

\* ------------------------------------------- the historical loop of main
\* The state of extract_data_points that main does not touch.
walkVars == <<chan_num, kwh_usage, point_type, detailed_start_time, detailed_interval_secs,
              collect_details, detailed_seconds_enabled, db_last_record_time,
              minute_history_start_time, stop_time_min, minute_history_enabled, no_data_flag,
              sec_history_start_time, stop_time_sec, second_history_enabled,
              usage, usage_start_time, fetches, queries>>

max_history_days == 720
SubWindowDays == 20
HistoryWaitSecs == 5
MaxFailures == 1

\* history_days = min(args.historydays, max_history_days)
HistoryDays(historydays) == Min(historydays, max_history_days)

\* The start of the requested history: the local midnight history_days before stop.
RequestedStart(stop, days, tz) == LocalMidnight(stop - days * SecondsInADay, tz)

\* The end of the sub-window that starts at start.
HistoryEnd(start, stop, tz) ==
    LocalDayEnd(Min(start + SubWindowDays * SecondsInADay, stop), tz)

\* The start of the sub-window that follows the one ending at end.
NextHistoryStartNoMidnight(end, tz) == end + SecondsInADay
NextHistoryStart(end, tz) == LocalMidnight(end + SecondsInADay, tz)

\* What the walker appends for one sub-window: nothing, or an hour point.
HistoryBatches(start) ==
    {<<>>, <<create_data_point(account_name, "1", 2 * 1000, FloorHour(start), tag_value_hour)>>}

\* The write of the buffer to the sink, skipped under dry-run.
SinkWriteAlways(dry, log, points) == Append(log, points)
SinkWrite(dry, log, points) == IF dry THEN log ELSE Append(log, points)

\* "if history:" and the lines before the loop.
HistoryBegin ==
    /\ pc = "history_begin"
    /\ IF history
       THEN /\ stop_time_history' = stop_time
            /\ history_start_time' = RequestedStart(stop_time, history_days, account_time_zone)
            /\ pc' = "history_loop"
       ELSE /\ pc' = "history_done"
            /\ UNCHANGED <<stop_time_history, history_start_time>>
    /\ UNCHANGED <<walkVars, schedVars, treeVars, now, failures, twinVars, stop_time, account_time_zone, history_days, history, dryrun,
                   history_end_time, windows, usage_data_points, written, running>>

\* The loop test succeeds: the sub-window's end and its extraction.
HistoryExtract ==
    /\ pc = "history_loop"
    /\ history_start_time <= stop_time_history
    /\ usages # NoUsages
    /\ history_end_time' = HistoryEnd(history_start_time, stop_time_history, account_time_zone)
    /\ windows' = Append(windows, <<history_start_time, history_end_time', account>>)
    /\ \E pts \in HistoryBatches(history_start_time) :
         /\ usage_data_points' = usage_data_points \o pts
         /\ nodry_points' = nodry_points \o pts
    /\ pc' = "history_check"
    /\ UNCHANGED <<walkVars, schedVars, treeVars, now, failures, nodry_written, stop_time, account_time_zone, history_days, history, dryrun,
                   stop_time_history, history_start_time, written, running>>

\* "for gid, dev in usages.items():" on a None answer raises.
HistoryDeref ==
    /\ pc = "history_loop"
    /\ history_start_time <= stop_time_history
    /\ usages = NoUsages
    /\ history_end_time' = HistoryEnd(history_start_time, stop_time_history, account_time_zone)
    /\ pc' = "failed"
    /\ UNCHANGED <<walkVars, schedVars, treeVars, now, failures, twinVars, stop_time, account_time_zone, history_days, history, dryrun,
                   stop_time_history, history_start_time, windows, usage_data_points,
                   written, running>>

\* The extraction of a sub-window raises: the account's iteration is abandoned.
HistoryFails ==
    /\ pc = "history_loop"
    /\ failures < MaxFailures
    /\ failures' = failures + 1
    /\ history_start_time <= stop_time_history
    /\ history_end_time' = HistoryEnd(history_start_time, stop_time_history, account_time_zone)
    /\ pc' = "failed"
    /\ UNCHANGED <<walkVars, schedVars, treeVars, now, twinVars, stop_time, account_time_zone, history_days, history, dryrun,
                   stop_time_history, history_start_time, windows, usage_data_points,
                   written, running>>

\* After the extraction: leave on a cleared running flag, else advance the start,
\* write the buffer (unless dry-run) and empty it.
HistoryAdvance ==
    /\ pc = "history_check"
    /\ IF ~running
       THEN /\ pc' = "history_break"
            /\ history' = FALSE
            /\ UNCHANGED <<history_start_time, written, usage_data_points, twinVars>>
       ELSE /\ history_start_time' = NextHistoryStart(history_end_time, account_time_zone)
            /\ written' = SinkWrite(dryrun, written, usage_data_points)
            /\ usage_data_points' = <<>>
            /\ nodry_written' = SinkWrite(FALSE, nodry_written, nodry_points)
            /\ nodry_points' = <<>>
            /\ pc' = "history_wait"
            /\ UNCHANGED history
    /\ UNCHANGED <<walkVars, schedVars, treeVars, now, failures, stop_time, account_time_zone, history_days, dryrun,
                   stop_time_history, history_end_time, windows, running>>

\* config.pause_event.wait(5) returns.
HistoryWaitSleeps ==
    /\ pc = "history_wait"
    /\ pc' = "history_loop"
    /\ now' = now + HistoryWaitSecs
    /\ UNCHANGED <<walkVars, schedVars, treeVars, failures, twinVars, stop_time, account_time_zone, history_days, history, dryrun,
                   stop_time_history, history_start_time, history_end_time, windows,
                   usage_data_points, written, running>>
HistoryWait ==
    /\ pc = "history_wait"
    /\ pc' = "history_loop"
    /\ now' = IF running THEN now + HistoryWaitSecs ELSE now
    /\ UNCHANGED <<walkVars, schedVars, treeVars, failures, twinVars, stop_time, account_time_zone, history_days, history, dryrun,
                   stop_time_history, history_start_time, history_end_time, windows,
                   usage_data_points, written, running>>

\* The loop test fails: the range is exhausted.
HistoryLoopExitKeepsFlag ==
    /\ pc = "history_loop"
    /\ ~(history_start_time <= stop_time_history)
    /\ UNCHANGED history
    /\ pc' = "history_done"
    /\ UNCHANGED <<walkVars, schedVars, treeVars, now, failures, twinVars, stop_time, account_time_zone, history_days, dryrun,
                   stop_time_history, history_start_time, history_end_time, windows,
                   usage_data_points, written, running>>
HistoryLoopExit ==
    /\ pc = "history_loop"
    /\ ~(history_start_time <= stop_time_history)
    /\ history' = FALSE
    /\ pc' = "history_done"
    /\ UNCHANGED <<walkVars, schedVars, treeVars, now, failures, twinVars, stop_time, account_time_zone, history_days, dryrun,
                   stop_time_history, history_start_time, history_end_time, windows,
                   usage_data_points, written, running>>

\* The positions of main at which a signal can arrive: anywhere in the scheduler loop.
HandlerPoints ==
    {"cycle_test", "login", "live", "hour", "day", "history_begin", "history_loop",
     "history_check", "history_wait", "history_done", "history_break", "flush", "failed",
     "cycle_end", "wait"}

\* The signal handler: running = False and pause_event.set(); the event is never
\* cleared, so it is set exactly when running is false.
handle_exit ==
    /\ running
    /\ pc \in HandlerPoints
    /\ running' = FALSE
    /\ UNCHANGED <<pc, walkVars, schedVars, treeVars, now, failures, twinVars, stop_time, account_time_zone, history_days, history, dryrun,
                   stop_time_history, history_start_time, history_end_time, windows,
                   usage_data_points, written>>

\* Stop times around the local day boundaries, 60 days after the epoch.
HistStops(tz) ==
    {60 * SecondsInADay - tz + t : t \in {0, 1, 12 * 3600 + 17 * 60 + 37, SecondsInADay - 1}}

InitHistory ==
    /\ SchedIdle
    /\ TreeIdle
    /\ usages = "MINUTE"
    /\ pc = "history_begin"
    /\ account_time_zone \in TzOffsets
    /\ stop_time \in HistStops(account_time_zone)
    /\ \E d \in 0..MaxHistDays : history_days = HistoryDays(d)
    /\ history = (history_days > 0)
    /\ dryrun \in BOOLEAN
    /\ usage_data_points \in
          {<<>>, <<create_data_point(account_name, "1", 120000, FloorMinute(stop_time), tag_value_minute)>>}
    /\ nodry_points = usage_data_points
    /\ chan_num = "1"
    /\ kwh_usage = None
    /\ point_type = PtHistory
    /\ history_start_time = None
    /\ history_end_time = None
    /\ detailed_interval_secs = 3600
    /\ detailed_start_time = stop_time
    /\ collect_details = FALSE
    /\ detailed_seconds_enabled = FALSE
    /\ db_last_record_time = None
    /\ minute_history_start_time = None
    /\ stop_time_min = None
    /\ minute_history_enabled = FALSE
    /\ no_data_flag = FALSE
    /\ sec_history_start_time = None
    /\ stop_time_sec = None
    /\ second_history_enabled = FALSE
    /\ usage = <<>>
    /\ usage_start_time = None
    /\ fetches = <<>>
    /\ queries = <<>>
    /\ stop_time_history = None
    /\ windows = <<>>
    /\ written = <<>>
    /\ running = TRUE

NextHistory ==
    \/ HistoryBegin
    \/ HistoryExtract
    \/ HistoryFails
    \/ HistoryAdvance
    \/ HistoryWait
    \/ HistoryLoopExit
    \/ handle_exit

SpecHistory == InitHistory /\ [][NextHistory]_vars

\* The historical loop has run to the end of the requested range.
HistoryComplete == pc = "history_done" /\ windows # <<>>

\* C9: the sub-windows of a completed historical loop are contiguous and
\* non-overlapping (each starts one second after the one before ends), the first
\* starts at the requested start (the local midnight history_days before the stop
\* time) and the last reaches the stop time, so every instant of the range lies in
\* exactly one sub-window.
C9_SubWindowsCover ==
    /\ \A i \in 1..Len(windows) :
         /\ windows[i][1] <= windows[i][2]
         /\ i > 1 => windows[i][1] = windows[i - 1][2] + 1
    /\ windows # <<>> =>
         LET tz == account_time_zone
             w == (stop_time - history_days * 24 * 3600) + tz
         IN  windows[1][1] = (w - (w % (24 * 3600))) - tz
    /\ HistoryComplete =>
         /\ windows[Len(windows)][2] >= stop_time
         /\ \A t \in {stop_time, stop_time - 1, windows[1][1], windows[1][1] + 20 * 24 * 3600} :
               t <= stop_time =>
                   Cardinality({i \in 1..Len(windows) :
                                   windows[i][1] <= t /\ t <= windows[i][2]}) = 1

C9_Witness ==
    /\ HistoryComplete
    /\ Len(windows) = 3
    /\ history_days = 43
    /\ windows[3][2] >= stop_time

\* C10: every historical sub-window spans at most 20 days, every sub-window but the
\* last ends at 23:59:59 local time, and the last one ends at the stop time.
C10_SubWindowBounds ==
    /\ \A i \in 1..Len(windows) :
         /\ windows[i][2] - windows[i][1] <= 20 * 24 * 3600
         /\ (i < Len(windows) \/ ~HistoryComplete) =>
               (windows[i][2] + account_time_zone) % (24 * 3600) = 24 * 3600 - 1
    /\ HistoryComplete => windows[Len(windows)][2] = stop_time

\* -------------------------------- the traversal of a device tree (extract_data_points)
MaxChannels == 4
MaxNested == 2

\* A device tree: channel c hangs under the nested device tree[c].gid of channel
\* tree[c].parent; parent 0 is the device the call is made on.  A device is the pair
\* <<parent channel, gid>>.
TopDevice == <<0, 1>>

Trees ==
    UNION {{t \in [1..n -> [parent : 0..(n - 1), gid : 1..MaxNested]] :
               \A c \in 1..n : /\ t[c].parent < c
                               /\ (t[c].parent = 0 => t[c].gid = 1)} : n \in 0..MaxChannels}

RECURSIVE SortedSeq(_)
SortedSeq(S) ==
    IF S = {} THEN <<>>
    ELSE LET m == CHOOSE x \in S : \A y \in S : x <= y
         IN  <<m>> \o SortedSeq(S \ {m})

\* device.channels.items()
ChannelsOf(dev) ==
    SortedSeq({c \in DOMAIN tree : tree[c].parent = dev[1] /\ tree[c].gid = dev[2]})

\* chan.nested_devices.items(); empty when the channel has no nested device.
NestedOfNone(c) == <<>>
NestedOf(c) ==
    LET gids == SortedSeq({tree[d].gid : d \in {e \in DOMAIN tree : tree[e].parent = c}})
    IN  [k \in 1..Len(gids) |-> <<c, gids[k]>>]

\* The frame of a call: the channels still to go (the first is the current one) and the
\* nested devices of the current channel still to recurse into.
NestedOfFirst(chans) == IF chans = <<>> THEN <<>> ELSE NestedOf(Head(chans))
Frame(dev) ==
    LET chans == ChannelsOf(dev)
    IN  [device |-> dev, chans |-> chans, nested |-> NestedOfFirst(chans)]

\* Everything but the traversal.
nonTreeVars == <<callArgs, usage_data_points, db_last_record_time,
                 minute_history_start_time, stop_time_min, minute_history_enabled,
                 no_data_flag, sec_history_start_time, stop_time_sec,
                 second_history_enabled, usage, usage_start_time, fetches, queries,
                 mainVars, schedVars, now, failures, twinVars>>

Top == stack[Len(stack)]
ReplaceTop(f) == [stack EXCEPT ![Len(stack)] = f]

\* The recursive call for the next nested device of the current channel.
Recurse ==
    /\ pc = "tree_walk"
    /\ stack # <<>>
    /\ Top.chans # <<>>
    /\ Top.nested # <<>>
    /\ stack' = Append(ReplaceTop([Top EXCEPT !.nested = Tail(@)]), Frame(Head(Top.nested)))
    /\ UNCHANGED <<pc, tree, visited, nonTreeVars>>

\* The nested devices are done: the channel itself is processed.
ProcessChannel ==
    /\ pc = "tree_walk"
    /\ stack # <<>>
    /\ Top.chans # <<>>
    /\ Top.nested = <<>>
    /\ visited' = Append(visited, Head(Top.chans))
    /\ stack' = ReplaceTop([Top EXCEPT !.chans = Tail(@),
                                       !.nested = NestedOfFirst(Tail(Top.chans))])
    /\ UNCHANGED <<pc, tree, nonTreeVars>>

\* Processing the channel raises: the exception leaves every frame.
ChannelRaises ==
    /\ pc = "tree_walk"
    /\ stack # <<>>
    /\ Top.chans # <<>>
    /\ Top.nested = <<>>
    /\ stack' = <<>>
    /\ pc' = "tree_raised"
    /\ UNCHANGED <<tree, visited, nonTreeVars>>

\* The channel loop of a call is exhausted: the call returns.
Return ==
    /\ pc = "tree_walk"
    /\ stack # <<>>
    /\ Top.chans = <<>>
    /\ stack' = SubSeq(stack, 1, Len(stack) - 1)
    /\ pc' = IF Len(stack) = 1 THEN "tree_done" ELSE "tree_walk"
    /\ UNCHANGED <<tree, visited, nonTreeVars>>

\* The walker's own state when no channel is being walked.
CallIdle ==
    /\ chan_num = "1"
    /\ kwh_usage = None
    /\ point_type = PtNone
    /\ history_start_time = None
    /\ history_end_time = None
    /\ db_last_record_time = None
    /\ minute_history_start_time = None
    /\ stop_time_min = None
    /\ minute_history_enabled = FALSE
    /\ no_data_flag = FALSE
    /\ sec_history_start_time = None
    /\ stop_time_sec = None
    /\ second_history_enabled = FALSE
    /\ usage = <<>>
    /\ usage_start_time = None
    /\ fetches = <<>>
    /\ queries = <<>>

InitTree ==
    /\ pc = "tree_walk"
    /\ tree \in Trees
    /\ stack = <<Frame(TopDevice)>>
    /\ visited = <<>>
    /\ SchedIdle
    /\ CallIdle
    /\ usages = NoUsages
    /\ stop_time = StopBase
    /\ account_time_zone = 0
    /\ detailed_interval_secs = 3600
    /\ detailed_start_time = StopBase
    /\ collect_details = FALSE
    /\ detailed_seconds_enabled = FALSE
    /\ usage_data_points = <<>>
    /\ nodry_points = <<>>
    /\ history_days = 0
    /\ history = FALSE
    /\ dryrun = FALSE
    /\ stop_time_history = None
    /\ windows = <<>>
    /\ written = <<>>
    /\ running = TRUE

NextTree ==
    \/ Recurse
    \/ ProcessChannel
    \/ ChannelRaises
    \/ Return

SpecTree == InitTree /\ [][NextTree]_vars

Children(c) == {d \in DOMAIN tree : tree[d].parent = c}

\* C11: one call on a tree with N channels processes every channel exactly once: no
\* channel is processed twice, the channels of the nested devices of a channel are
\* processed before the channel itself, and when the call returns all N have been
\* processed.
C11_EachChannelOnce ==
    /\ \A i, j \in 1..Len(visited) : i # j => visited[i] # visited[j]
    /\ \A i \in 1..Len(visited) :
          \A d \in Children(visited[i]) : \E j \in 1..(i - 1) : visited[j] = d
    /\ pc = "tree_done" =>
          /\ Len(visited) = Len(tree)
          /\ {visited[i] : i \in 1..Len(visited)} = DOMAIN tree

\* A returned call on a tree with channels two levels deep and a channel that carries
\* two nested devices.
C11_Witness ==
    /\ pc = "tree_done"
    /\ Len(visited) = Len(tree)
    /\ Len(tree) >= 4
    /\ \E c \in DOMAIN tree : tree[c].parent # 0 /\ tree[tree[c].parent].parent # 0
    /\ \E c, d \in DOMAIN tree : tree[c].parent = tree[d].parent /\ tree[c].parent # 0
                                  /\ tree[c].gid # tree[d].gid

\* ------------------------------------------------- the scheduler loop of main
\* Every account has one device with one channel, "1", that reports 2 kWh units; an
\* extraction appends one point or raises.  The clock stands still while a cycle
\* runs and moves in the waits.
MaxAccounts == 2
MaxCycles == 3
lag_secs == 5

Accounts == 1..MaxAccounts

\* past_day.day, cur_day.day: the local calendar day (two instants of a run whose days of
\* the month are equal lie on the same date, cycles being less than a month apart).
DayOf(t, tz) == (t + tz) \div SecondsInADay

\* past_hour: the stop time less one hour, with minute and second replaced by 0.
PastHour(stop) == FloorHour(stop - OneHour)

\* What the extractions of main append.
LivePoints ==
    <<create_data_point(account_name, "1", 2 * 60 * 1000, FloorMinute(stop_time),
                        tag_value_minute)>>
HourPoint(past_hour) ==
    <<create_data_point(account_name, "1", 2 * 1000, past_hour, tag_value_hour)>>
DayPoint ==
    <<create_data_point(account_name, "1", 2 * 1000, past_day, tag_value_day)>>

\* State that a step of the account loop outside the historical loop leaves alone.
histVars == <<history_days, history_end_time, stop_time_history, windows>>
cfgVars == <<account_time_zone, dryrun, interval_secs, detailed_interval_secs,
             detailed_data_enabled, detailed_hours_enabled, detailed_seconds_enabled>>
idleVars == <<chan_num, kwh_usage, point_type, db_last_record_time,
              minute_history_start_time, stop_time_min, minute_history_enabled,
              no_data_flag, sec_history_start_time, stop_time_sec, second_history_enabled,
              usage, usage_start_time, fetches, queries, treeVars>>

\* "while config.running:" holds and a cycle begins.
CycleStart ==
    /\ pc = "cycle_test"
    /\ running
    /\ cycle < MaxCycles
    /\ cycle' = cycle + 1
    /\ usage_data_points' = <<>>
    /\ nodry_points' = <<>>
    /\ cur_day' = now
    /\ stop_time' = now - lag_secs
    /\ collect_details' = CollectDetails(detailed_data_enabled, detailed_interval_secs,
                                         stop_time', detailed_start_time)
    /\ account' = 1
    /\ abandoned' = {}
    /\ pc' = "login"
    /\ UNCHANGED <<cfgVars, histVars, idleVars, history_start_time, detailed_start_time,
                   history, written, running, logged_in, now, past_day, history_run,
                   failures, collected, nodry_written, usages>>

\* "while config.running:" fails: the loop is left and 'Finished' is logged.
LoopExit ==
    /\ pc = "cycle_test"
    /\ ~running
    /\ pc' = "stopped"
    /\ UNCHANGED <<cfgVars, histVars, idleVars, history_start_time, detailed_start_time,
                   history, written, running, logged_in, now, past_day, history_run,
                   failures, collected, abandoned, twinVars, cycle, usage_data_points, cur_day,
                   stop_time, collect_details, account, usages>>

\* State that no step of the account loop outside the historical loop changes.
stepFixed == <<cfgVars, histVars, idleVars, cycle, cur_day, stop_time, collect_details,
               running, history, now, detailed_start_time>>

\* The step of "for account in cfg['accounts']": the next account, or the end of the loop.
NextAccount ==
    IF account < MaxAccounts
    THEN /\ account' = account + 1
         /\ pc' = "login"
    ELSE /\ pc' = "cycle_end"
         /\ UNCHANGED account

\* "if 'vue' not in account:": the session is set up on the account's first iteration.
Login ==
    /\ pc = "login"
    /\ logged_in' = logged_in \cup {account}
    /\ pc' = "live"
    /\ UNCHANGED <<stepFixed, account, usage_data_points, nodry_points, history_start_time,
                   collected, abandoned, past_day, failures, written, nodry_written, history_run, usages>>

\* login or populate_devices raises: the call stands outside the try, nothing catches
\* the exception and the process ends with a traceback.
LoginFails ==
    /\ pc = "login"
    /\ account \notin logged_in
    /\ failures < MaxFailures
    /\ failures' = failures + 1
    /\ logged_in' = logged_in \cup {account}
    /\ pc' = "crashed"
    /\ UNCHANGED <<stepFixed, account, usage_data_points, nodry_points, history_start_time,
                   collected, abandoned, past_day, written, nodry_written, history_run, usages>>

\* The minute-scale fetch of the device list and the live extraction.
LiveCollect ==
    /\ pc = "live"
    /\ usage_data_points' = usage_data_points \o LivePoints
    /\ nodry_points' = nodry_points \o LivePoints
    /\ usages' = "MINUTE"
    /\ pc' = "hour"
    /\ UNCHANGED <<stepFixed, account, logged_in, history_start_time, collected, abandoned, past_day,
                   failures, written, nodry_written, history_run>>

\* The minute-scale fetch of the device list answers None: nothing is extracted.
LiveNone ==
    /\ pc = "live"
    /\ failures < MaxFailures
    /\ failures' = failures + 1
    /\ usages' = NoUsages
    /\ pc' = "hour"
    /\ UNCHANGED <<stepFixed, account, logged_in, usage_data_points, nodry_points,
                   history_start_time, collected, abandoned, past_day, written, nodry_written,
                   history_run>>

LiveFails ==
    /\ pc = "live"
    /\ failures < MaxFailures
    /\ failures' = failures + 1
    /\ pc' = "failed"
    /\ UNCHANGED <<stepFixed, account, logged_in, usage_data_points, nodry_points,
                   history_start_time, collected, abandoned, past_day, written, nodry_written,
                   history_run, usages>>

\* "if collect_details and detailed_hours_enabled:"
HourDue == collect_details /\ detailed_hours_enabled

\* The collection of the previous hour.
HourCollect ==
    /\ pc = "hour"
    /\ IF HourDue
       THEN /\ history_start_time' = PastHour(stop_time)
            /\ usage_data_points' = usage_data_points \o HourPoint(PastHour(stop_time))
            /\ nodry_points' = nodry_points \o HourPoint(PastHour(stop_time))
            /\ collected' = Append(collected, <<tag_value_hour, account, PastHour(stop_time)>>)
            /\ usages' = "HOUR"
       ELSE UNCHANGED <<history_start_time, usage_data_points, nodry_points, collected, usages>>
    /\ pc' = "day"
    /\ UNCHANGED <<stepFixed, abandoned, account, logged_in, past_day, failures, written,
                   nodry_written, history_run>>

HourFails ==
    /\ pc = "hour"
    /\ HourDue
    /\ failures < MaxFailures
    /\ failures' = failures + 1
    /\ history_start_time' = PastHour(stop_time)
    /\ pc' = "failed"
    /\ UNCHANGED <<stepFixed, account, logged_in, usage_data_points, nodry_points,
                   collected, abandoned, past_day, written, nodry_written, history_run, usages>>

\* "if past_day.day != cur_day.day:"
DayDue == DayOf(past_day, account_time_zone) # DayOf(cur_day, account_time_zone)

\* The marker after a day collection: 23:59:59 of the current local day.
ResetPastDayKeep == past_day
ResetPastDay == LocalDayEnd(now, account_time_zone)

\* The collection of the previous day and the reset of the marker.
DayCollect ==
    /\ pc = "day"
    /\ IF DayDue
       THEN /\ history_start_time' = past_day
            /\ usage_data_points' = usage_data_points \o DayPoint
            /\ nodry_points' = nodry_points \o DayPoint
            /\ collected' = Append(collected, <<tag_value_day, account, past_day>>)
            /\ past_day' = ResetPastDay
            /\ usages' = "DAY"
       ELSE UNCHANGED <<history_start_time, usage_data_points, nodry_points, collected,
                        past_day, usages>>
    /\ pc' = "history_begin"
    /\ UNCHANGED <<stepFixed, abandoned, account, logged_in, failures, written, nodry_written,
                   history_run>>

\* The day-scale fetch raises: the marker keeps its value.
DayFails ==
    /\ pc = "day"
    /\ DayDue
    /\ failures < MaxFailures
    /\ failures' = failures + 1
    /\ pc' = "failed"
    /\ UNCHANGED <<stepFixed, account, logged_in, usage_data_points, nodry_points,
                   history_start_time, collected, abandoned, past_day, written, nodry_written,
                   history_run, usages>>

\* The sink write of a sub-window raises, after the start has been advanced.
HistoryWriteFails ==
    /\ pc = "history_check"
    /\ running
    /\ ~dryrun
    /\ failures < MaxFailures
    /\ failures' = failures + 1
    /\ history_start_time' = NextHistoryStart(history_end_time, account_time_zone)
    /\ pc' = "failed"
    /\ UNCHANGED <<stepFixed, account, logged_in, usage_data_points, nodry_points,
                   collected, abandoned, past_day, written, nodry_written, history_run, usages>>

\* "if not config.running: break" after the history block.
AccountCheckNoBreak ==
    /\ pc \in {"history_done", "history_break"}
    /\ pc' = "flush"
    /\ UNCHANGED <<stepFixed, account, logged_in, usage_data_points, nodry_points,
                   history_start_time, collected, abandoned, past_day, failures, written,
                   nodry_written, history_run, usages>>
AccountCheck ==
    /\ pc \in {"history_done", "history_break"}
    /\ pc' = IF running THEN "flush" ELSE "cycle_end"
    /\ UNCHANGED <<stepFixed, account, logged_in, usage_data_points, nodry_points,
                   history_start_time, collected, abandoned, past_day, failures, written,
                   nodry_written, history_run, usages>>

\* "if not history_run:" the per-account write is made.
FlushDueWithoutRequest == history_days <= 0
FlushDue == ~history_run

\* The write of the account's points, which leaves the buffer as it is; then the end of
\* the historical run is recorded.
Flush ==
    /\ pc = "flush"
    /\ IF FlushDue
       THEN /\ written' = SinkWrite(dryrun, written, usage_data_points)
            /\ nodry_written' = SinkWrite(FALSE, nodry_written, nodry_points)
       ELSE UNCHANGED <<written, nodry_written>>
    /\ history_run' = IF ~history /\ history_run THEN FALSE ELSE history_run
    /\ NextAccount
    /\ UNCHANGED <<stepFixed, logged_in, usage_data_points, nodry_points,
                   history_start_time, collected, abandoned, past_day, failures, usages>>

\* The per-account write raises.
FlushFails ==
    /\ pc = "flush"
    /\ FlushDue
    /\ ~dryrun
    /\ failures < MaxFailures
    /\ failures' = failures + 1
    /\ pc' = "failed"
    /\ UNCHANGED <<stepFixed, account, logged_in, usage_data_points, nodry_points,
                   history_start_time, collected, abandoned, past_day, written, nodry_written,
                   history_run, usages>>

\* "except Exception:" the failure is logged and the account loop goes on.
ExceptHandler ==
    /\ pc = "failed"
    /\ abandoned' = abandoned \cup {account}
    /\ NextAccount
    /\ UNCHANGED <<stepFixed, logged_in, usage_data_points, nodry_points,
                   history_start_time, collected, past_day, failures, written,
                   nodry_written, history_run, usages>>

\* After the account loop: the detail interval restarts after a detail collection.
CycleEndFlushes ==
    /\ pc = "cycle_end"
    /\ detailed_start_time' = IF collect_details THEN stop_time + 1 ELSE detailed_start_time
    /\ written' = SinkWrite(dryrun, written, usage_data_points)
    /\ nodry_written' = SinkWrite(FALSE, nodry_written, nodry_points)
    /\ pc' = "wait"
    /\ UNCHANGED <<cfgVars, histVars, idleVars, cycle, cur_day, stop_time, collect_details,
                   running, history, now, account, logged_in, usage_data_points,
                   nodry_points, history_start_time, collected, abandoned, past_day, failures,
                   history_run, usages>>
CycleEnd ==
    /\ pc = "cycle_end"
    /\ detailed_start_time' = IF collect_details THEN stop_time + 1 ELSE detailed_start_time
    /\ pc' = "wait"
    /\ UNCHANGED <<cfgVars, histVars, idleVars, cycle, cur_day, stop_time, collect_details,
                   running, history, now, account, logged_in, usage_data_points,
                   nodry_points, history_start_time, collected, abandoned, past_day, failures,
                   written, nodry_written, history_run, usages>>

\* config.pause_event.wait(interval_secs) returns: after the interval, or at once when
\* the event is set.
PauseWait ==
    /\ pc = "wait"
    /\ now' = IF running THEN now + interval_secs ELSE now
    /\ pc' = "cycle_test"
    /\ UNCHANGED <<cfgVars, histVars, idleVars, cycle, cur_day, stop_time, collect_details,
                   running, history, detailed_start_time, account, logged_in,
                   usage_data_points, nodry_points, history_start_time, collected, abandoned,
                   past_day, failures, written, nodry_written, history_run, usages>>

\* The scheduler starts at 23:00:00 local time, 60 days after the epoch.
MainStart(tz) == 60 * SecondsInADay - tz + 23 * 3600
MainHistoryDays == {0, 25}
MainIntervals == {1800, 7200}
MainDetailIntervals == {0, 3600}

\* The state of main before the first test of "while config.running:".
InitMain ==
    /\ pc = "cycle_test"
    /\ TreeIdle
    /\ CallIdle
    /\ account = 1
    /\ logged_in = {}
    /\ cycle = 0
    /\ account_time_zone = 0 - 5 * 3600
    /\ now = MainStart(account_time_zone)
    /\ detailed_start_time = now
    /\ past_day = LocalDayEnd(now, account_time_zone)
    /\ cur_day = None
    /\ stop_time = None
    /\ \E d \in MainHistoryDays, m \in {0, max_history_days} : history_days = Min(d, m)
    /\ history = (history_days > 0)
    /\ history_run = history
    /\ dryrun \in BOOLEAN
    /\ interval_secs \in MainIntervals
    /\ detailed_data_enabled \in BOOLEAN
    /\ detailed_interval_secs \in (IF detailed_data_enabled THEN MainDetailIntervals ELSE {3600})
    /\ detailed_hours_enabled = detailed_data_enabled
    /\ detailed_seconds_enabled = detailed_data_enabled
    /\ collect_details = FALSE
    /\ running = TRUE
    /\ usage_data_points = <<>>
    /\ stop_time_history = None
    /\ windows = <<>>
    /\ written = <<>>
    /\ failures = 0
    /\ collected = <<>>
    /\ abandoned = {}
    /\ nodry_points = <<>>
    /\ nodry_written = <<>>
    /\ usages = NoUsages

NextMain ==
    \/ CycleStart
    \/ LoopExit
    \/ Login
    \/ LoginFails
    \/ LiveCollect
    \/ LiveNone
    \/ LiveFails
    \/ HourCollect
    \/ HourFails
    \/ DayCollect
    \/ DayFails
    \/ HistoryBegin
    \/ HistoryExtract
    \/ HistoryDeref
    \/ HistoryFails
    \/ HistoryAdvance
    \/ HistoryWriteFails
    \/ HistoryWait
    \/ HistoryLoopExit
    \/ AccountCheck
    \/ Flush
    \/ FlushFails
    \/ ExceptHandler
    \/ CycleEnd
    \/ PauseWait
    \/ handle_exit

SpecMain == InitMain /\ [][NextMain]_vars

\* The statements of main that neither raise nor are the signal handler.
MainStep ==
    \/ CycleStart
    \/ LoopExit
    \/ Login
    \/ LiveCollect
    \/ LiveNone
    \/ HourCollect
    \/ DayCollect
    \/ HistoryBegin
    \/ HistoryExtract
    \/ HistoryDeref
    \/ HistoryAdvance
    \/ HistoryWait
    \/ HistoryLoopExit
    \/ AccountCheck
    \/ Flush
    \/ ExceptHandler
    \/ CycleEnd
    \/ PauseWait

\* main keeps executing: a call returns or raises, a wait ends.
SpecMainFair == SpecMain /\ WF_vars(MainStep)

\* ------------------------------------------------------ claims on the scheduler
\* The points of a batch.
PointsOf(batch) == {batch[k] : k \in 1..Len(batch)}

\* Entries of the collection log of one scale.
EntriesOf(scale) == {k \in 1..Len(collected) : collected[k][1] = scale}

\* C12: after every flush the buffer is empty (after the flush of a sub-window, and
\* when the account loop moves to the next account after accounts that were flushed
\* without a failure), so no point is handed to the sink write in two flushes.
C12_FlushEmptiesBuffer ==
    /\ pc = "history_wait" => usage_data_points = <<>>
    /\ (pc = "login" /\ account > 1 /\ failures = 0 /\ ~dryrun) => usage_data_points = <<>>
    /\ \A i, j \in 1..Len(written) :
          i < j => PointsOf(written[i]) \cap PointsOf(written[j]) = {}

\* C13: the batch that the per-account write hands to the sink holds no point of an
\* account whose iteration failed earlier in the same cycle.
C13_NoLeakFromFailedAccount ==
    (pc = "flush" /\ ~history_run /\ ~dryrun) =>
        \A p \in PointsOf(usage_data_points) : p.account_name \notin abandoned

\* C14: no failure of a call made for an account ends the process: whatever call
\* raises, session set-up included, the scheduler loop goes on.
C14_FailureNeverFatal == pc # "crashed"

\* C15: once the handler has run, the flag stays cleared, no cycle is started, a wait
\* returns without the clock moving, and the scheduler reaches the stopped state: it
\* ends nowhere else and it does get there.
C15_CancelStops ==
    /\ [][~running => (~running' /\ cycle' = cycle)]_vars
    /\ [][(~running /\ pc \in {"wait", "history_wait"}) => now' = now]_vars
    /\ [](~running => pc # "crashed")
    /\ (~running) ~> (pc = "stopped")

\* C16: a running flag found cleared at the check that follows the extraction of a
\* sub-window ends the loop: no further sub-window is extracted and no later account
\* is processed in the cycle.
C16_HistoryLoopCancel ==
    /\ [][(pc = "history_loop" /\ windows' # windows) => pc' = "history_check"]_vars
    /\ [][(pc = "history_check" /\ ~running /\ pc' # pc) => pc' = "history_break"]_vars
    /\ [][(pc = "history_break" /\ pc' # pc) => pc' = "cycle_end"]_vars
    /\ [][(~running /\ pc \in {"history_check", "history_break", "cycle_end", "wait",
                               "cycle_test", "stopped"})
             => (windows' = windows /\ account' = account /\ cycle' = cycle
                 /\ usage_data_points' = usage_data_points)]_vars

\* The first of two sub-windows was extracted, the check found the flag cleared and
\* the scheduler stopped without going on to the second account.
C16_Witness ==
    /\ pc = "stopped"
    /\ history_days = 25
    /\ Len(windows) = 1
    /\ account = 1
    /\ failures = 0
    /\ cycle = 1

\* C17: a day collection is made exactly when the local day of the cycle differs from
\* the marker's; the marker is then on the current day; no account collects the same
\* day twice, and the day collected is the one before the cycle's.
C17_DayRollover ==
    /\ [][(pc = "day" /\ pc' = "history_begin") =>
             ((collected' # collected) <=>
                 DayOf(past_day, account_time_zone) # DayOf(cur_day, account_time_zone))]_vars
    /\ [][(collected' # collected /\ pc = "day") =>
             /\ DayOf(past_day', account_time_zone) = DayOf(cur_day, account_time_zone)
             /\ DayOf(past_day, account_time_zone) + 1 = DayOf(cur_day, account_time_zone)
             /\ collected'[Len(collected')] = <<tag_value_day, account, past_day>>]_vars
    /\ [][pc # "day" => past_day' = past_day]_vars
    /\ [](\A i, j \in EntriesOf(tag_value_day) :
             (i # j /\ collected[i][2] = collected[j][2]) => collected[i][3] # collected[j][3])

\* The day rolled over at the second cycle, the day before was collected once, and the
\* third cycle, on the same day, collected none.
C17_Witness ==
    /\ cycle = 3
    /\ pc = "wait"
    /\ failures = 0
    /\ Cardinality(EntriesOf(tag_value_day)) = 1
    /\ DayOf(cur_day, account_time_zone) = DayOf(past_day, account_time_zone)
    /\ DayOf(now, account_time_zone) = DayOf(MainStart(account_time_zone), account_time_zone) + 1

\* C18: with hour detail enabled, the hours an account collects follow one another
\* without a gap and without a repetition.
C18_HourlyOncePerHour ==
    \A i, j \in EntriesOf(tag_value_hour) :
        (/\ i < j
         /\ collected[i][2] = collected[j][2]
         /\ \A k \in EntriesOf(tag_value_hour) :
               (i < k /\ k < j) => collected[k][2] # collected[i][2])
        => collected[j][3] = collected[i][3] + OneHour

\* C19: the history flag, once cleared, stays cleared; a sub-window is extracted only
\* while it is set; the end of the sub-window loop clears it; without requested
\* history no sub-window is ever extracted.
C19_HistoryOnce ==
    /\ [][~history => ~history']_vars
    /\ [][windows' # windows => (history /\ pc = "history_loop")]_vars
    /\ [][(pc = "history_loop" /\ pc' = "history_done") => ~history']_vars
    /\ [](pc \in {"history_done", "history_break", "flush"} => ~history)
    /\ [](history_days <= 0 => (~history /\ windows = <<>>))

\* The backfill of 25 days was made in the first cycle by the first account; the
\* second account and a later cycle made none.
C19_Witness ==
    /\ history_days = 25
    /\ ~history
    /\ Len(windows) = 2
    /\ cycle >= 2
    /\ account = 2
    /\ pc = "flush"
    /\ failures = 0

C21_DayForEveryAccount ==
    (pc = "cycle_end" /\ running /\ failures = 0) =>
        \A k \in EntriesOf(tag_value_day) :
            \A a \in Accounts :
                \E j \in EntriesOf(tag_value_day) :
                    collected[j][2] = a /\ collected[j][3] = collected[k][3]

\* C22: when the account loop of the first cycle of a run with a requested backfill has
\* ended without failure and without cancellation, sub-windows have been extracted for
\* every account.
C22_HistoryForEveryAccount ==
    (pc = "cycle_end" /\ cycle = 1 /\ history_days > 0 /\ running /\ failures = 0) =>
        \A a \in Accounts : \E i \in 1..Len(windows) : windows[i][3] = a

\* The first sequence is the beginning of the second.
IsPrefix(a, b) == Len(a) <= Len(b) /\ SubSeq(b, 1, Len(a)) = a

\* C23: with dry-run off, a point leaves the buffer during a cycle only in a step that
\* hands the whole buffer to the sink write, and when the processing of an account
\* completes (the step past the per-account write, suppressed or not) every point in
\* the buffer has been handed to a sink write; the buffer is dropped only when the next
\* cycle starts, after the sleep.
C23_AppendedIsWritten ==
    /\ [][(~dryrun /\ ~IsPrefix(usage_data_points, usage_data_points')) =>
             \/ pc = "cycle_test"
             \/ written' = Append(written, usage_data_points)]_vars
    /\ [][(~dryrun /\ pc = "flush" /\ pc' \in {"login", "cycle_end"}) =>
             \A p \in PointsOf(usage_data_points') :
                 \E i \in 1..Len(written') : p \in PointsOf(written'[i])]_vars

\* The cycle of the backfill is over: the two sub-windows of account 1 were written, the
\* first with its live point, its per-account write was suppressed, and the live point
\* of account 2 was written by the per-account write.
C23_Witness ==
    /\ pc = "wait"
    /\ cycle = 1
    /\ history_days = 25
    /\ ~dryrun
    /\ running
    /\ failures = 0
    /\ Len(written) = 3
    /\ \E p \in PointsOf(written[1]) : p.account_name = 1 /\ p.detailed = tag_value_minute
    /\ \E p \in PointsOf(written[1]) : p.detailed = tag_value_hour
    /\ PointsOf(usage_data_points) \subseteq PointsOf(written[3])
    /\ usage_data_points # <<>>

\* C24: in the historical loop the step after the extraction of a sub-window hands the
\* buffer to the sink write (skipped under dry-run) and empties it; the wait follows,
\* of 5 seconds, ended at once by cancellation, with the buffer left empty; and the
\* extraction of a sub-window is reached only from the start of the loop or from that
\* wait.
C24_SubWindowFlushThenWait ==
    /\ [][(pc = "history_check" /\ pc' # pc) =>
             pc' \in {"history_wait", "history_break", "failed"}]_vars
    /\ [][(pc = "history_check" /\ pc' = "history_wait") =>
             /\ usage_data_points' = <<>>
             /\ ~dryrun => written' = Append(written, usage_data_points)]_vars
    /\ [][pc = "history_wait" =>
             /\ usage_data_points = <<>>
             /\ usage_data_points' = <<>>
             /\ written' = written
             /\ windows' = windows
             /\ pc' # pc => /\ pc' = "history_loop"
                            /\ now' = (IF running THEN now + 5 ELSE now)]_vars
    /\ [][(pc' = "history_loop" /\ pc # "history_loop") =>
             pc \in {"history_begin", "history_wait"}]_vars

\* The first sub-window was extracted and written with the live point, the 5 seconds
\* have passed, and the loop stands before the second sub-window with an empty buffer.
C24_Witness ==
    /\ pc = "history_loop"
    /\ Len(windows) = 1
    /\ history_start_time = windows[1][2] + 1
    /\ ~dryrun
    /\ running
    /\ Len(written) = 1
    /\ \E p \in PointsOf(written[1]) : p.detailed = tag_value_hour
    /\ usage_data_points = <<>>
    /\ now = MainStart(account_time_zone) + 5

\* C25: the extraction of a sub-window never works on the answer of the live, hour or
\* day fetch of the account's iteration, and the sub-window loop never stands before
\* an extraction with a None answer in hand.
C25_FreshUsagePerSubWindow ==
    /\ [][windows' # windows => usages' \notin {"MINUTE", "HOUR", "DAY"}]_vars
    /\ []((pc = "history_loop" /\ history_start_time <= stop_time_history)
             => usages # NoUsages)

\* C26: collect_details is computed when a cycle starts, true exactly when detailed
\* data is enabled, detailedIntervalSecs > 0 and stop_time - detailed_start_time >=
\* detailedIntervalSecs, and keeps its value through the cycle; detailed_start_time
\* changes only at the end of a cycle that collects details, to stop_time + 1, and it
\* does change there; so a detail-collecting cycle that follows another has a stop time
\* more than detailedIntervalSecs after that one's (which is detailed_start_time - 1
\* once detailed_start_time has left the start-up time).
C26_DetailSchedule ==
    /\ [][cycle' # cycle =>
             (collect_details' <=>
                 /\ detailed_data_enabled
                 /\ detailed_interval_secs > 0
                 /\ stop_time' - detailed_start_time >= detailed_interval_secs)]_vars
    /\ [][(collect_details' # collect_details \/ stop_time' # stop_time) =>
             cycle' # cycle]_vars
    /\ [][detailed_start_time' # detailed_start_time =>
             /\ pc = "cycle_end"
             /\ collect_details
             /\ detailed_start_time' = stop_time + 1]_vars
    /\ [][(pc = "cycle_end" /\ pc' # pc /\ collect_details) =>
             detailed_start_time' = stop_time + 1]_vars
    /\ [][(cycle' # cycle /\ collect_details /\ collect_details') =>
             stop_time' - stop_time > detailed_interval_secs]_vars
    /\ [][(cycle' # cycle /\ collect_details'
           /\ detailed_start_time # MainStart(account_time_zone)) =>
             stop_time' - (detailed_start_time - 1) > detailed_interval_secs]_vars

\* The third cycle collects details two hours after the second did; the first did not.
C26_Witness ==
    /\ cycle = 3
    /\ pc = "login"
    /\ collect_details
    /\ detailed_interval_secs = 3600
    /\ interval_secs = 7200
    /\ detailed_start_time = MainStart(account_time_zone) + 7200 - lag_secs + 1
    /\ stop_time = detailed_start_time - 1 + 7200
    /\ Cardinality(EntriesOf(tag_value_hour)) >= 1

\* The fetches of a scale among those issued so far.
FetchesOf(scale) == {k \in 1..Len(fetches) : fetches[k][1] = scale}

\* C27: every window passed to the metering API at minute or second scale has start <=
\* stop: the window the resolver returns for MINUTE when it flags backfill, the window
\* it returns for SECOND, and every window of the catch-up loop, each of which follows
\* a window that ended below the cap (the stop time floored to the minute), starts at
\* that window's stop and ends that window's span later, neither beyond the cap.
C27_WindowsOrdered ==
    /\ \A k \in FetchesOf("MINUTE") \cup FetchesOf("SECOND") : fetches[k][2] <= fetches[k][3]
    /\ pc = "catchup" => minute_history_start_time <= stop_time_min
    /\ pc = "sec_fetch" => sec_history_start_time <= stop_time_sec
    /\ \A k \in FetchesOf("MINUTE") :
          (k + 1) \in FetchesOf("MINUTE") =>
              LET cap == stop_time - (stop_time % 60)
                  span == fetches[k][3] - fetches[k][2]
              IN  /\ fetches[k][3] < cap
                  /\ fetches[k + 1][2] = Min(fetches[k][3], cap)
                  /\ fetches[k + 1][3] = Min(fetches[k][3] + span, cap)

\* A call whose catch-up loop advanced its window up to the cap, where the last pass
\* had a window shorter than 12 hours, and which then fetched the seconds.
C27_Witness ==
    /\ pc = "history"
    /\ Cardinality(FetchesOf("MINUTE")) = 14
    /\ Cardinality(FetchesOf("SECOND")) = 1
    /\ fetches[14][3] = FloorMinute(stop_time)
    /\ fetches[14][3] - fetches[14][2] < TwelveHours
    /\ fetches[14][2] = fetches[13][3]
    /\ stop_time % 60 # 0

\* The points of the buffer that carry a tag.
Tagged(tag) == {i \in 1..Len(usage_data_points) : usage_data_points[i].detailed = tag}

\* C28: in an invocation with history start and end both supplied no last-timestamp
\* query is sent and no minute- or second-scale fetch is made, no minute- or second-
\* tagged point is appended, the channel's own usage value appends nothing, an aggregate
\* channel appends nothing, and a non-aggregate channel gets one hour fetch and one day
\* fetch of the range: after the hour fetch the buffer holds one hour-tagged point per
\* non-null hour sample and nothing else, after the day fetch one day-tagged point per
\* non-null day sample follows them.
C28_HistoricalInvocation ==
    HistoryDue =>
        /\ queries = <<>>
        /\ FetchesOf("MINUTE") \cup FetchesOf("SECOND") = {}
        /\ Tagged(tag_value_minute) \cup Tagged(tag_value_second) = {}
        /\ pc \in {"entry", "detail", "history"} => usage_data_points = <<>>
        /\ chan_num \in {"Balance", "TotalUsage"} =>
              (usage_data_points = <<>> /\ fetches = <<>>)
        /\ pc = "day_fetch" =>
              /\ fetches = <<<<"HOUR", history_start_time, history_end_time>>>>
              /\ Cardinality(Tagged(tag_value_hour)) = Cardinality(NonNullAt(usage))
              /\ Len(usage_data_points) = Cardinality(NonNullAt(usage))
        /\ (pc = "done" /\ chan_num \notin {"Balance", "TotalUsage"}) =>
              /\ fetches = <<<<"HOUR", history_start_time, history_end_time>>,
                             <<"DAY", history_start_time, history_end_time>>>>
              /\ Cardinality(Tagged(tag_value_day)) = Cardinality(NonNullAt(usage))
              /\ Len(usage_data_points) =
                    Cardinality(Tagged(tag_value_hour)) + Cardinality(Tagged(tag_value_day))
              /\ \A i \in Tagged(tag_value_hour), j \in Tagged(tag_value_day) : i < j

\* A historical invocation on a metered channel that has a usage value: the hour fetch
\* gave one point, the day fetch one None and one sample, and detail collection was due.
C28_Witness ==
    /\ pc = "done"
    /\ HistoryDue
    /\ chan_num = "1"
    /\ kwh_usage = 2
    /\ collect_details
    /\ detailed_seconds_enabled
    /\ usage = <<None, 2>>
    /\ Cardinality(Tagged(tag_value_hour)) = 1
    /\ Cardinality(Tagged(tag_value_day)) = 1
    /\ Len(usage_data_points) = 2

\* C29: at most one second-scale fetch is issued for a channel; exactly one in a live
\* invocation with detail collection due and second detail enabled on a non-aggregate
\* channel, for the window the resolver returned, after which the channel goes on
\* (even when every sample is None) with that window unchanged; none for an aggregate
\* channel, none without detail due, none in an hourly, day-rollover or historical
\* invocation.
C29_OneSecondFetch ==
    /\ Cardinality(FetchesOf("SECOND")) <= 1
    /\ (/\ pc \in {"history", "day_fetch", "done"}
        /\ point_type = PtNone
        /\ chan_num \notin {"Balance", "TotalUsage"}
        /\ collect_details /\ detailed_seconds_enabled)
          => Cardinality(FetchesOf("SECOND")) = 1
    /\ (\/ point_type # PtNone
        \/ history_start_time # None
        \/ chan_num \in {"Balance", "TotalUsage"}
        \/ ~(collect_details /\ detailed_seconds_enabled))
          => FetchesOf("SECOND") = {}
    /\ pc = "sec_fetch" => FetchesOf("SECOND") = {}
    /\ \A k \in FetchesOf("SECOND") :
          /\ fetches[k] = <<"SECOND", sec_history_start_time, stop_time_sec>>
          /\ k = Len(fetches)
          /\ pc \in {"history", "done"}

\* A live invocation with detail due whose one second-scale fetch returned only None.
C29_Witness ==
    /\ pc = "done"
    /\ point_type = PtNone
    /\ chan_num = "1"
    /\ collect_details
    /\ detailed_seconds_enabled
    /\ fetches[Len(fetches)][1] = "SECOND"
    /\ usage = <<None, None>>
    /\ Cardinality(FetchesOf("SECOND")) = 1
    /\ Tagged(tag_value_second) = {}

\* C30: in the catch-up loop the point of the non-null sample at index i of a fetch is
\* stamped at the start of the window that was asked for plus i minutes, whatever
\* start time the API reports for the fetch.
C30_StampFromWindowStart ==
    [][(pc = "catchup" /\ fetches' # fetches) =>
          \A k \in NonNullAt(usage') :
              usage_data_points'[Len(usage_data_points)
                                 + Cardinality({j \in NonNullAt(usage') : j <= k})].time
                  = minute_history_start_time + 60 * (k - 1)]_vars

\* C32: when the check after a sub-window's extraction, or the per-account check after
\* the history block, finds the running flag cleared, the account loop is left without
\* the write, and from there to the stopped state no batch is handed to the sink, with
\* or without dry-run: the points still in the buffer are never written.
C32_CancelDiscardsBuffer ==
    /\ [][(pc = "history_check" /\ ~running) =>
             (pc' = "history_break" /\ written' = written
              /\ nodry_written' = nodry_written)]_vars
    /\ [][(pc \in {"history_done", "history_break"} /\ ~running) =>
             (pc' = "cycle_end" /\ written' = written
              /\ nodry_written' = nodry_written)]_vars
    /\ [][(~running /\ pc \in {"cycle_end", "wait", "cycle_test", "stopped"}) =>
             (pc' \in {"wait", "cycle_test", "stopped"} /\ written' = written
              /\ nodry_written' = nodry_written
              /\ usage_data_points' = usage_data_points)]_vars

\* The scheduler stopped in the iteration of the first account, which the per-account
\* check left, with a point in the buffer that no batch written to the sink holds.
C32_Witness ==
    /\ pc = "stopped"
    /\ ~dryrun
    /\ account < MaxAccounts
    /\ abandoned = {}
    /\ \E p \in PointsOf(usage_data_points) :
          \A i \in 1..Len(written) : p \notin PointsOf(written[i])

\* ------------------------------------- the live cycle and the sink it feeds
\* main with one account that has one metered channel, "1", no detail collection, no
\* historical run and no day rollover during the run.  The sink stores every batch
\* written to it and answers the MINUTE query from them; the API has a sample for
\* every minute up to the stop time of the window asked for and reports the start
\* time it was asked for.
MaxLiveCycles == 20
LiveIntervals == {60, 90, 150, 180}
LiveBase == 60 * SecondsInADay + 12 * 3600 + 17 * 60 + 17
LiveStarts == {LiveBase + 37 * k : k \in 0..MaxStopSec}
\* How far the last stored MINUTE point lies behind the first stop time, floored to
\* the minute: one minute, 3 minutes, 13 hours, 8 days.
LiveGaps == {60, 180, 13 * 3600, 8 * SecondsInADay}

\* The latest of a set of times (None, which is below every time, standing for no
\* time at all).
Latest(times) == CHOOSE t \in times : \A o \in times : o <= t

\* The time of the last MINUTE point of the channel among the points lo..hi of a
\* batch the sink holds (None: there is none), found half by half.
RECURSIVE LastMinuteTime(_, _, _)
LastMinuteTime(batch, lo, hi) ==
    IF lo > hi THEN None
    ELSE IF lo = hi
         THEN IF batch[lo].detailed = tag_value_minute /\ batch[lo].device_name = chan_num
              THEN batch[lo].time
              ELSE None
         ELSE CHOOSE t \in UNION {{Latest(halves) :
                                      halves \in {{LastMinuteTime(batch, lo, mid),
                                                   LastMinuteTime(batch, mid + 1, hi)}}} :
                                  mid \in {(lo + hi) \div 2}} : TRUE
\* What the sink answers to the MINUTE query of the channel: the time of the last
\* point it was given, None when it was given none.
LastStored ==
    CHOOSE t \in {Latest(batches \cup {None}) :
                     batches \in {{LastMinuteTime(written[i], 1, Len(written[i])) :
                                      i \in 1..Len(written)}}} : TRUE

\* What get_chart_usage answers at minute scale for the window (start, stop): a
\* sample for every minute from the start's up to the stop's, and the start time
\* asked for.
FullSamples(n) == [k \in 1..n |-> 2]
FullResponses(start, stop) ==
    {<<FullSamples(IF stop < FloorMinute(start) THEN 0
                   ELSE ((stop - FloorMinute(start)) \div 60) + 1), 0>>}

\* "while config.running:" holds; the cycle begins and the live device-list fetch
\* answers with the channel's usage value: extract_data_points is entered.
LiveCycleStart ==
    /\ pc = "cycle_test"
    /\ running
    /\ cycle < MaxLiveCycles
    /\ cycle' = cycle + 1
    /\ usage_data_points' = <<>>
    /\ nodry_points' = <<>>
    /\ cur_day' = now
    /\ stop_time' = now - lag_secs
    /\ collect_details' = CollectDetails(detailed_data_enabled, detailed_interval_secs,
                                         stop_time', detailed_start_time)
    /\ logged_in' = logged_in \cup {account}
    /\ usages' = "MINUTE"
    /\ pc' = "entry"
    /\ UNCHANGED <<chan_num, kwh_usage, point_type, history_start_time, history_end_time,
                   detailed_start_time, detailed_interval_secs, detailed_seconds_enabled,
                   db_last_record_time, minute_history_start_time, stop_time_min,
                   minute_history_enabled, no_data_flag, sec_history_start_time, stop_time_sec,
                   second_history_enabled, usage, usage_start_time, fetches, queries,
                   mainVars, account, now, past_day, history_run, interval_secs,
                   detailed_data_enabled, detailed_hours_enabled, failures, collected,
                   abandoned, nodry_written, treeVars>>

\* The rest of the account's iteration once the live extraction has returned: no hour
\* or day collection is due, no history is pending, the flag is set, and the buffer
\* is written.
LiveCycleFlush ==
    /\ pc = "done"
    /\ ~(collect_details /\ detailed_hours_enabled)
    /\ DayOf(past_day, account_time_zone) = DayOf(cur_day, account_time_zone)
    /\ ~history
    /\ running
    /\ FlushDue
    /\ written' = SinkWrite(dryrun, written, usage_data_points)
    /\ nodry_written' = SinkWrite(FALSE, nodry_written, usage_data_points)
    /\ pc' = "cycle_end"
    /\ UNCHANGED <<callArgs, usage_data_points, db_last_record_time,
                   minute_history_start_time, stop_time_min, minute_history_enabled,
                   no_data_flag, sec_history_start_time, stop_time_sec,
                   second_history_enabled, usage, usage_start_time, fetches, queries,
                   account_time_zone, history_days, history, dryrun, stop_time_history,
                   windows, running, schedVars, now, failures, nodry_points, treeVars>>

InitLive ==
    /\ pc = "cycle_test"
    /\ TreeIdle
    /\ chan_num = "1"
    /\ kwh_usage = 2
    /\ point_type = PtNone
    /\ history_start_time = None
    /\ history_end_time = None
    /\ db_last_record_time = None
    /\ minute_history_start_time = None
    /\ stop_time_min = None
    /\ minute_history_enabled = FALSE
    /\ no_data_flag = FALSE
    /\ sec_history_start_time = None
    /\ stop_time_sec = None
    /\ second_history_enabled = FALSE
    /\ usage = <<>>
    /\ usage_start_time = None
    /\ fetches = <<>>
    /\ queries = <<>>
    /\ account = 1
    /\ logged_in = {}
    /\ cycle = 0
    /\ account_time_zone = 0
    /\ now \in LiveStarts
    /\ detailed_start_time = now
    /\ past_day = LocalDayEnd(now, account_time_zone)
    /\ cur_day = None
    /\ stop_time = None
    /\ history_days = 0
    /\ history = FALSE
    /\ history_run = FALSE
    /\ dryrun = FALSE
    /\ interval_secs \in LiveIntervals
    /\ detailed_data_enabled = FALSE
    /\ detailed_interval_secs = 3600
    /\ detailed_hours_enabled = FALSE
    /\ detailed_seconds_enabled = FALSE
    /\ collect_details = FALSE
    /\ running = TRUE
    /\ usage_data_points = <<>>
    /\ stop_time_history = None
    /\ windows = <<>>
    /\ written \in {<<>>} \cup
           {<<<<create_data_point(account_name, "1", (minutes_in_an_hour * watts_in_a_kw) * 2,
                                  FloorMinute(now - lag_secs) - g, tag_value_minute)>>>> :
               g \in LiveGaps}
    /\ failures = 0
    /\ collected = <<>>
    /\ abandoned = {}
    /\ nodry_points = <<>>
    /\ nodry_written = <<>>
    /\ usages = NoUsages

NextLive ==
    \/ LiveCycleStart
    \/ ResolveMinute({LastStored})
    \/ CatchUpFetchOf(FullResponses(minute_history_start_time, stop_time_min))
    \/ SkipSeconds
    \/ NoHistory
    \/ LiveCycleFlush
    \/ CycleEnd
    \/ PauseWait

\* Every call returns and every wait ends, and no signal arrives.
SpecLive == InitLive /\ [][NextLive]_vars /\ WF_vars(NextLive)

\* The resolver has reported that no backfill is needed and the simple live minute
\* point of the cycle is in the buffer.
LivePointEmitted ==
    /\ pc = "detail"
    /\ ~minute_history_enabled
    /\ minute_history_start_time = stop_time
    /\ usage_data_points =
           <<create_data_point(account_name, chan_num,
                               (minutes_in_an_hour * watts_in_a_kw) * kwh_usage,
                               FloorMinute(stop_time), tag_value_minute)>>

\* C31 as stated: whatever the distance of the last stored MINUTE stamp behind the
\* stop time (no prior record included) and whatever the time between two cycles, the
\* run that enters its first cycle reaches a cycle in which the resolver reports no
\* backfill and the simple live point is emitted; so no backfill cycle finds the
\* sink exactly one cycle's time further than the cycle before it found it, which
\* would be the same distance behind again and, nothing else having changed, the
\* same at every later cycle.
C31_AnyDistanceConverges ==
    /\ (pc = "entry" /\ cycle = 1) ~> LivePointEmitted
    /\ [][(pc = "entry" /\ pc' = "catchup" /\ db_last_record_time # None)
             => db_last_record_time' - db_last_record_time # interval_secs]_vars

\* C31: with the stop times of successive cycles less than three minutes apart, the
\* sink storing every written point and the API answering a sample for every slot up
\* to the stop time, the run that enters its first cycle with the last stored MINUTE
\* stamp any distance behind (no prior record included) reaches a cycle in which
\* the resolver reports no backfill and the simple live point is emitted, and no
\* backfill cycle finds the sink as far behind as the cycle before it found it.
C31_BackfillConverges ==
    /\ (pc = "entry" /\ cycle = 1 /\ interval_secs < 3 * 60) ~> LivePointEmitted
    /\ [][(pc = "entry" /\ pc' = "catchup" /\ db_last_record_time # None
           /\ interval_secs < 3 * 60)
             => db_last_record_time' - db_last_record_time # interval_secs]_vars

\* After a backfill of at least fourteen windows, which began a week or more behind,
\* a cycle emits the simple live point.
C31_Witness == LivePointEmitted /\ cycle > 1 /\ Len(fetches) >= 14
               /\ Len(written) = Len(fetches)

====
